---- MODULE Spec2Model ----
(***************************************************************************)
(* Model of the daily-notes manager "fh": the note store (src/src/store.rs),*)
(* the note / day document codec (src/src/notes.rs) and the edit path of   *)
(* the command-line program (src/src/main.rs).                             *)
(*                                                                         *)
(* Text is a sequence of characters; a character is a one-element string,  *)
(* and ByteWidth gives the number of bytes of its UTF-8 encoding, because   *)
(* the codec slices text by byte offsets.                                  *)
(*                                                                         *)
(* The two SQL tables are sets of rows.  A statement run on the pool       *)
(* (&self.pool) takes effect at once; a statement run on the transaction    *)
(* (&mut *tx) takes effect on commit and is undone when the transaction is  *)
(* dropped without commit.  deleted_at is only ever tested for NULL by the  *)
(* code, so a stamped column holds STAMP; updated_at is written and never   *)
(* read, and the rows leave it out.                                        *)
(***************************************************************************)
EXTENDS Integers, Sequences, FiniteSets, TLC

\* ------------------------------------------------------------------ bounds
MaxNotes == 2       \* rows the note table may hold
MaxIntents == 2     \* note intents in one parsed day document
MaxDate == 1        \* calendar days 1..MaxDate are edited; created_at reaches further days
MaxTime == 1        \* instants 0..MaxTime are used as created_at
TicksPerDay == 1    \* instants per calendar day

NULL == "NULL"
STAMP == "STAMP"

Dates == 1..MaxDate
\* range queries also reach the days around the edited ones
QueryDates == 0..(MaxDate + 1)
Times == 0..MaxTime
Bodies == {<<"a">>, <<"b">>}
\* the (body, completed) pairs that notes are written with
Contents == {[body |-> <<"a">>, completed |-> FALSE], [body |-> <<"b">>, completed |-> TRUE]}
DayTexts == {<<>>, <<"t", "\n">>}

\* DateTime<Utc>::date_naive: the calendar day of an instant
date_naive(t) == (t \div TicksPerDay) + 1

SetMax(S) == CHOOSE m \in S : \A x \in S : x <= m

SeqsUpTo(S, n) == UNION {[1..k -> S] : k \in 0..n}

\* ------------------------------------------------------------------- text
\* 'é' stands for any character whose UTF-8 encoding takes two bytes
ByteWidth(c) == IF c = "é" THEN 2 ELSE 1

RECURSIVE ByteLen(_)
\* str::len: the length in bytes
ByteLen(s) == IF s = <<>> THEN 0 ELSE ByteWidth(Head(s)) + ByteLen(Tail(s))

IsWhitespace(c) == c \in {" ", "\t", "\n"}

RECURSIVE TrimStart(_)
TrimStart(s) == IF s # <<>> /\ IsWhitespace(Head(s)) THEN TrimStart(Tail(s)) ELSE s

RECURSIVE TrimEnd(_)
TrimEnd(s) ==
    IF s # <<>> /\ IsWhitespace(s[Len(s)]) THEN TrimEnd(SubSeq(s, 1, Len(s) - 1)) ELSE s

\* str::trim
Trim(s) == TrimEnd(TrimStart(s))

\* the characters of s that end at byte offset n, when n is a character boundary
CharsAtByte(s, n) == {k \in 0..Len(s) : ByteLen(SubSeq(s, 1, k)) = n}

\* str::find(":") / split_once(':'): position of the first c in s, 0 when none
FindChar(s, c) ==
    IF \E i \in DOMAIN s : s[i] = c
    THEN CHOOSE i \in DOMAIN s : s[i] = c /\ \A j \in 1..(i - 1) : s[j] # c
    ELSE 0

Digits == <<"0", "1", "2", "3", "4", "5", "6", "7", "8", "9">>

IsDigit(c) == \E i \in DOMAIN Digits : Digits[i] = c

DigitVal(c) == (CHOOSE i \in DOMAIN Digits : Digits[i] = c) - 1

RECURSIVE DigitsVal(_)
DigitsVal(s) ==
    IF s = <<>> THEN 0 ELSE DigitsVal(SubSeq(s, 1, Len(s) - 1)) * 10 + DigitVal(s[Len(s)])

\* u32::MAX, in decimal digits
U32MaxDigits == <<"4", "2", "9", "4", "9", "6", "7", "2", "9", "5">>

RECURSIVE StripZeros(_)
StripZeros(s) == IF Len(s) > 1 /\ Head(s) = "0" THEN StripZeros(Tail(s)) ELSE s

RECURSIVE DigitsLeq(_, _)
\* a <= b for digit runs of one length
DigitsLeq(a, b) ==
    IF a = <<>> THEN TRUE
    ELSE IF DigitVal(Head(a)) # DigitVal(Head(b)) THEN DigitVal(Head(a)) < DigitVal(Head(b))
    ELSE DigitsLeq(Tail(a), Tail(b))

FitsU32(ds) ==
    LET cs == StripZeros(ds) IN
    Len(cs) < Len(U32MaxDigits) \/ (Len(cs) = Len(U32MaxDigits) /\ DigitsLeq(cs, U32MaxDigits))

\* str::parse::<u32>: an optional '+', then one or more ASCII digits, no overflow
ParseU32(s) ==
    LET ds == IF s # <<>> /\ Head(s) = "+" THEN Tail(s) ELSE s IN
    IF ds = <<>> \/ \E i \in DOMAIN ds : ~IsDigit(ds[i])
    THEN [ok |-> FALSE, val |-> 0]
    ELSE IF ~FitsU32(ds)
    THEN [ok |-> FALSE, val |-> 0]
    ELSE [ok |-> TRUE, val |-> DigitsVal(ds)]

RECURSIVE FormatU32(_)
\* Display for u32: decimal digits, no sign, no padding
FormatU32(n) ==
    IF n < 10 THEN <<Digits[n + 1]>>
    ELSE Append(FormatU32(n \div 10), Digits[(n % 10) + 1])

\* ------------------------------------------------------- note line codec
PrefixLen == 7
OpenPrefix == <<"-", " ", "[", " ", "]", " ", ":">>
DonePrefix == <<"-", " ", "[", "x", "]", " ", ":">>

\* results of ParsedNote::parse_pretty_md: Ok(Some(Note)), Ok(Some(NewNote)),
\* Ok(None), Err(..), or a panic of the slice &s[..7]
ParsedExisting(id, body, completed) ==
    [res |-> "Note", id |-> id, body |-> body, completed |-> completed, created_at |-> 0]
ParsedNew(body, completed, now) ==
    [res |-> "NewNote", id |-> 0, body |-> body, completed |-> completed, created_at |-> now]
ParsedOther(res) ==
    [res |-> res, id |-> 0, body |-> <<>>, completed |-> FALSE, created_at |-> 0]

\* mutant of ParseFields: the remainder is split on its last ':' (rsplit_once)
ParseFieldsLastColon(rest, completed, now) ==
    LET p == IF \E i \in DOMAIN rest : rest[i] = ":"
             THEN CHOOSE i \in DOMAIN rest :
                      rest[i] = ":" /\ \A j \in (i + 1)..Len(rest) : rest[j] # ":"
             ELSE 0
    IN
    IF p # 0
    THEN LET id_string == SubSeq(rest, 1, p - 1)
             body == Trim(SubSeq(rest, p + 1, Len(rest)))
             id == ParseU32(id_string)
         IN IF body = <<>> THEN ParsedOther("None")
            ELSE IF ~id.ok THEN ParsedOther("ErrId")
            ELSE ParsedExisting(id.val, body, completed)
    ELSE LET new_note_text == Trim(rest) IN
         IF new_note_text = <<>> THEN ParsedOther("None")
         ELSE ParsedNew(new_note_text, completed, now)

\* mutant of ParseFields: an id-bearing line is not tested for an empty body
\* (as in Note::from_pretty)
ParseFieldsNoNoop(rest, completed, now) ==
    LET p == FindChar(rest, ":") IN
    IF p # 0
    THEN LET id_string == SubSeq(rest, 1, p - 1)
             body == Trim(SubSeq(rest, p + 1, Len(rest)))
             id == ParseU32(id_string)
         IN IF ~id.ok THEN ParsedOther("ErrId")
            ELSE ParsedExisting(id.val, body, completed)
    ELSE LET new_note_text == Trim(rest) IN
         IF new_note_text = <<>> THEN ParsedOther("None")
         ELSE ParsedNew(new_note_text, completed, now)

\* mutant of ParseFields: without a ':' a leading digit of the remainder is
\* still read as the id of an existing note
ParseFieldsDigitId(rest, completed, now) ==
    LET p == FindChar(rest, ":") IN
    IF p # 0
    THEN LET id_string == SubSeq(rest, 1, p - 1)
             body == Trim(SubSeq(rest, p + 1, Len(rest)))
             id == ParseU32(id_string)
         IN IF body = <<>> THEN ParsedOther("None")
            ELSE IF ~id.ok THEN ParsedOther("ErrId")
            ELSE ParsedExisting(id.val, body, completed)
    ELSE LET new_note_text == Trim(rest) IN
         IF new_note_text = <<>> THEN ParsedOther("None")
         ELSE IF IsDigit(new_note_text[1])
         THEN ParsedExisting(DigitVal(new_note_text[1]), Trim(Tail(new_note_text)), completed)
         ELSE ParsedNew(new_note_text, completed, now)

\* the match on s[idx + 1..].split_once(':') of ParsedNote::parse_pretty_md
ParseFields(rest, completed, now) ==
    LET p == FindChar(rest, ":") IN
    IF p # 0
    THEN LET id_string == SubSeq(rest, 1, p - 1)
             body == Trim(SubSeq(rest, p + 1, Len(rest)))
             id == ParseU32(id_string)
         IN IF body = <<>> THEN ParsedOther("None")
            ELSE IF ~id.ok THEN ParsedOther("ErrId")
            ELSE ParsedExisting(id.val, body, completed)
    ELSE LET new_note_text == Trim(rest) IN
         IF new_note_text = <<>> THEN ParsedOther("None")
         ELSE ParsedNew(new_note_text, completed, now)

\* ParsedNote::parse_pretty_md
ParsedNote_parse_pretty_md(line, now) ==
    LET s == Trim(line) IN
    IF ByteLen(s) < PrefixLen THEN ParsedOther("ErrShort")
    ELSE IF CharsAtByte(s, PrefixLen) = {} THEN ParsedOther("Panic")
    ELSE LET k == CHOOSE k \in CharsAtByte(s, PrefixLen) : TRUE
             start == SubSeq(s, 1, k)
         IN IF ~(start = OpenPrefix \/ start = DonePrefix) THEN ParsedOther("ErrStart")
            ELSE IF Len(s) < 4 THEN ParsedOther("ErrTick")
            ELSE LET completed == s[4] = "x"
                     idx == FindChar(s, ":")
                 IN IF idx = 0 THEN ParsedOther("ErrColon")
                    ELSE ParseFields(SubSeq(s, idx + 1, Len(s)), completed, now)

\* Note::pretty_empty
pretty_empty == <<" ", "-", " ", "[", " ", "]", " ", ":">>

\* Note::pretty: format!(" - [{tick}] :{}: {}", self.id, self.body)
Note_pretty(n) ==
    LET tick == IF n.completed THEN "x" ELSE " " IN
    <<" ", "-", " ", "[", tick, "]", " ", ":">> \o FormatU32(n.id) \o <<":", " ">> \o n.body

\* ------------------------------------------------------ day document codec
\* Calendar days are counted from 2025-10-01 (day 0); the header carries the
\* day as YYYY-MM-DD.
DatePrefix == <<"2", "0", "2", "5", "-", "1", "0", "-">>

\* Display for NaiveDate
FormatDate(d) == DatePrefix \o <<Digits[((d + 1) \div 10) + 1], Digits[((d + 1) % 10) + 1]>>

\* NaiveDate::from_str, for the days of October 2025: year, month and day are
\* digit runs joined by '-', the day has one or two digits and is in 1..31
ParseDate(s) ==
    IF Len(s) > Len(DatePrefix) /\ SubSeq(s, 1, Len(DatePrefix)) = DatePrefix
    THEN LET dd == SubSeq(s, Len(DatePrefix) + 1, Len(s)) IN
         IF Len(dd) <= 2 /\ (\A i \in DOMAIN dd : IsDigit(dd[i]))
            /\ DigitsVal(dd) >= 1 /\ DigitsVal(dd) <= 31
         THEN [ok |-> TRUE, date |-> DigitsVal(dd) - 1]
         ELSE [ok |-> FALSE, date |-> 0]
    ELSE [ok |-> FALSE, date |-> 0]

TodayHeader == <<"#", " ", "T", "o", "d", "a", "y", ":", " ">>
DayHeader == <<"#", " ", "D", "a", "y", ":", " ">>
Terminator == <<"-", "-", "-">>

HasPrefix(s, p) == Len(s) >= Len(p) /\ SubSeq(s, 1, Len(p)) = p

\* str::strip_prefix of either header spelling; found is FALSE when neither matches
StripHeader(l) ==
    IF HasPrefix(l, TodayHeader)
    THEN [found |-> TRUE, date |-> SubSeq(l, Len(TodayHeader) + 1, Len(l))]
    ELSE IF HasPrefix(l, DayHeader)
    THEN [found |-> TRUE, date |-> SubSeq(l, Len(DayHeader) + 1, Len(l))]
    ELSE [found |-> FALSE, date |-> <<>>]

RECURSIVE FindHeader(_, _)
\* the loop `while date.is_none()`: i is the next line of the cursor
FindHeader(b, i) ==
    IF i > Len(b) THEN [found |-> FALSE, date |-> <<>>, next |-> i]
    ELSE IF Trim(b[i]) = <<>> THEN FindHeader(b, i + 1)
    ELSE LET h == StripHeader(b[i]) IN
         IF h.found THEN [found |-> TRUE, date |-> h.date, next |-> i + 1]
         ELSE FindHeader(b, i + 1)

\* `let Ok(Some(n)) = ParsedNote::parse_pretty_md(line) else { continue; }`
KeepIntent(notes, pn) ==
    IF pn.res \in {"Note", "NewNote"} THEN Append(notes, pn) ELSE notes

RECURSIVE ScanDay(_, _, _, _, _)
\* the loop `for line in line_iter` of ParsedDayNotes::parse_pretty_md
ScanDay(b, i, day_text, notes, now) ==
    IF i > Len(b) THEN [res |-> "Ok", day_text |-> day_text, notes |-> notes, next |-> i]
    ELSE IF b[i] = Terminator
    THEN [res |-> "Ok", day_text |-> day_text, notes |-> notes, next |-> i + 1]
    ELSE LET l == Trim(b[i]) IN
         IF l = <<>> THEN ScanDay(b, i + 1, day_text, notes, now)
         ELSE IF Head(l) = "-"
         THEN LET pn == ParsedNote_parse_pretty_md(l, now) IN
              IF pn.res = "Panic"
              THEN [res |-> "Panic", day_text |-> day_text, notes |-> notes, next |-> i + 1]
              ELSE ScanDay(b, i + 1, day_text, KeepIntent(notes, pn), now)
         ELSE ScanDay(b, i + 1, day_text \o l \o <<"\n">>, notes, now)

\* `body` is the first line after the header, `next` the line the cursor is left at
DayResult(res, date, notes, day_text, body, next) ==
    [res |-> res, date |-> date, notes |-> notes, note_count |-> Len(notes),
     day_text |-> day_text, body |-> body, next |-> next]

\* ParsedDayNotes::parse_pretty_md on the cursor standing before line i of b
ParsedDayNotes_parse_pretty_md(b, i, now) ==
    LET h == FindHeader(b, i) IN
    IF ~h.found THEN DayResult("ErrNoHeader", 0, <<>>, <<>>, h.next, h.next)
    ELSE LET d == ParseDate(h.date) IN
         IF ~d.ok THEN DayResult("ErrDate", 0, <<>>, <<>>, h.next, h.next)
         ELSE LET sc == ScanDay(b, h.next, <<>>, <<>>, now) IN
              DayResult(sc.res, d.date, sc.notes, sc.day_text, h.next, sc.next)

\* str::lines: the text cut at every '\n'; the last line needs no line break,
\* and a text that ends with a line break has no empty last line
Lines(s) ==
    LET nl == {i \in DOMAIN s : s[i] = "\n"}
        starts == ({1} \cup {i + 1 : i \in nl}) \ {Len(s) + 1}
        StartOf(k) == CHOOSE st \in starts : Cardinality({x \in starts : x < st}) = k - 1
        EndOf(st) == IF \E i \in nl : i >= st
                     THEN (CHOOSE i \in nl : i >= st /\ \A j \in nl : j >= st => i <= j) - 1
                     ELSE Len(s)
    IN [k \in 1..Cardinality(starts) |-> SubSeq(s, StartOf(k), EndOf(StartOf(k)))]

\* DayNotes::day_prefix; today is Utc::now().date_naive()
day_prefix(d, today) ==
    IF d.date = today THEN <<"T", "o", "d", "a", "y">> ELSE <<"D", "a", "y">>

RECURSIVE NoteLines(_)
\* `for note in &self.notes { out.push_str(&format!("{}\n", note.pretty())) }`
NoteLines(notes) ==
    IF notes = <<>> THEN <<>>
    ELSE Note_pretty(Head(notes)) \o <<"\n">> \o NoteLines(Tail(notes))

\* DayNotes::pretty_md, the editable form
DayNotes_pretty_md(d, today) ==
    <<"#", " ">> \o day_prefix(d, today) \o <<":", " ">> \o FormatDate(d.date) \o <<"\n", "\n">>
        \o NoteLines(d.notes)
        \o pretty_empty \o <<"\n">>
        \o <<"\n">>
        \o d.day_text
        \o Terminator

\* the escape sequences ansi_term writes, each one character of the model
AnsiBold == "ESC[1m"
AnsiGreen == "ESC[32m"
AnsiReset == "ESC[0m"
NoNotes == <<"N", "o", " ", "N", "o", "t", "e", "s", ".">>

\* DayNotes::pretty, the display form
DayNotes_pretty(d, today) ==
    <<AnsiBold>> \o day_prefix(d, today) \o <<":", " ", AnsiGreen>> \o FormatDate(d.date)
        \o <<AnsiReset, " ", "\n", "\n", AnsiReset>>
        \o NoteLines(d.notes)
        \o (IF d.notes = <<>> THEN NoNotes ELSE <<>>)
        \o <<"\n">>
        \o d.day_text

RECURSIVE JoinBlocks(_, _)
\* the editable forms of several days in one buffer, joined by line breaks
JoinBlocks(ds, today) ==
    IF Len(ds) = 1 THEN DayNotes_pretty_md(ds[1], today)
    ELSE DayNotes_pretty_md(Head(ds), today) \o <<"\n">> \o JoinBlocks(Tail(ds), today)

\* ------------------------------------------------------------------ state
VARIABLES
    day,     \* table day : rows [id, date, task_count, day_text]
    note,    \* table note: rows [id, body, completed, created_at, deleted_at, day_key]
    last,    \* the call the store has just served, or Idle
    src,     \* note line codec: the Note to serialize, or NoSrc
    line,    \* note line codec: the line of text to parse
    parsed,  \* note line codec: what ParsedNote::parse_pretty_md returned
    cpc,     \* codec position: "note" (to serialize), "line" (to parse), "done";
             \* for a day document "docs" (to serialize), "md", "display"
    buf,     \* day codec: the lines of the edited buffer
    cursor,  \* day codec: the next line of the Lines iterator
    dayOut,  \* day codec: what the calls of ParsedDayNotes::parse_pretty_md returned
    docs     \* day codec: the DayNotes to serialize

storeVars == <<day, note>>
storeAll == <<day, note, last>>
lineVars == <<src, line, parsed, cpc>>
dayVars == <<buf, cursor, dayOut, docs>>
codecVars == <<src, line, parsed, cpc, buf, cursor, dayOut, docs>>

\* ----------------------------------------------------------- input domains
NewNotes ==
    {[body |-> c.body, completed |-> c.completed, created_at |-> t] :
        c \in Contents, t \in Times}

NoteIds == 1..(MaxNotes + 1)

\* enum ParsedNote { Note(Note), NewNote(NewNote) }
ParsedNotes ==
    {[kind |-> "Note", id |-> i, body |-> c.body, completed |-> c.completed] :
        i \in NoteIds, c \in Contents}
    \cup {[kind |-> "NewNote", body |-> n.body, completed |-> n.completed,
           created_at |-> n.created_at] : n \in NewNotes}

\* struct ParsedDayNotes, as ParsedDayNotes::parse_pretty_md builds it
\* (note_count is the length of notes)
ParsedDayDocs ==
    {[notes |-> ns, note_count |-> Len(ns), date |-> d, day_text |-> t] :
        ns \in SeqsUpTo(ParsedNotes, MaxIntents), d \in Dates, t \in DayTexts}

\* ------------------------------------------------------------ SQL helpers
DayByDate(dayT, d) == {r \in dayT : r.date = d}

IdsOf(rows) == {r.id : r \in rows}

NextDayId(dayT) == IF dayT = {} THEN 1 ELSE SetMax({r.id : r \in dayT}) + 1

NextNoteId(noteT) == IF noteT = {} THEN 1 ELSE SetMax({r.id : r \in noteT}) + 1

\* impl From<NoteRow> for Note / impl From<NoteRowDate> for Note
NoteFromRow(r) == [id |-> r.id, body |-> r.body, completed |-> r.completed]

\* NewNote::to_note
to_note(n, id) == [id |-> id, body |-> n.body, completed |-> n.completed]

\* INSERT INTO day (date, task_count, day_text) VALUES (..) RETURNING ..
\* fails on a date that has a row (date is the conflict target of the upsert)
insert_day(dayT, d, task_count, text) ==
    IF DayByDate(dayT, d) # {}
    THEN [ok |-> FALSE, day |-> dayT, id |-> 0]
    ELSE LET id == NextDayId(dayT) IN
         [ok |-> TRUE,
          day |-> dayT \cup {[id |-> id, date |-> d, task_count |-> task_count,
                              day_text |-> text]},
          id |-> id]

\* mutant of InsertNoteRow: the id is one more than the number of alive rows, so
\* that the id of a soft-deleted row is given out again
InsertNoteRowReusedId(noteT, body, created_at, completed, day_key) ==
    LET id == Cardinality({r \in noteT : r.deleted_at = NULL}) + 1 IN
    [note |-> noteT \cup {[id |-> id, body |-> body, completed |-> completed,
                           created_at |-> created_at,
                           deleted_at |-> NULL, day_key |-> day_key]},
     id |-> id]

\* INSERT INTO note (body, created_at, completed, day_key) VALUES (..) RETURNING id
InsertNoteRow(noteT, body, created_at, completed, day_key) ==
    LET id == NextNoteId(noteT) IN
    [note |-> noteT \cup {[id |-> id, body |-> body, completed |-> completed,
                           created_at |-> created_at,
                           deleted_at |-> NULL, day_key |-> day_key]},
     id |-> id]

\* mutant of update_note: a row whose values do not change counts as not found
update_note_changed_only(noteT, n) ==
    IF \E r \in noteT : r.id = n.id /\ (r.body # n.body \/ r.completed # n.completed)
    THEN [ok |-> TRUE,
          note |-> {IF r.id = n.id
                    THEN [r EXCEPT !.body = n.body, !.completed = n.completed]
                    ELSE r : r \in noteT}]
    ELSE [ok |-> FALSE, note |-> noteT]

\* mutant of update_note: the UPDATE has no WHERE clause and changes every row
update_note_every_row(noteT, n) ==
    IF \E r \in noteT : r.id = n.id
    THEN [ok |-> TRUE,
          note |-> {[r EXCEPT !.body = n.body, !.completed = n.completed] : r \in noteT}]
    ELSE [ok |-> FALSE, note |-> noteT]

\* UPDATE note SET body, completed, updated_at = now WHERE id = ?3 RETURNING ..
\* then fetch_one: an error when no row was updated
update_note(noteT, n) ==
    IF \E r \in noteT : r.id = n.id
    THEN [ok |-> TRUE,
          note |-> {IF r.id = n.id
                    THEN [r EXCEPT !.body = n.body, !.completed = n.completed]
                    ELSE r : r \in noteT}]
    ELSE [ok |-> FALSE, note |-> noteT]

\* UPDATE note SET deleted_at = now WHERE id = ?
soft_delte_note_by_id(noteT, id) ==
    {IF r.id = id THEN [r EXCEPT !.deleted_at = STAMP] ELSE r : r \in noteT}

\* mutant of UpsertDay: on a conflict the row keeps its day_text
UpsertDayKeepText(dayT, d, task_count, text) ==
    IF DayByDate(dayT, d) = {}
    THEN insert_day(dayT, d, task_count, text)
    ELSE [ok |-> TRUE,
          day |-> {IF r.date = d
                   THEN [r EXCEPT !.task_count = task_count]
                   ELSE r : r \in dayT},
          id |-> (CHOOSE r \in dayT : r.date = d).id]

\* INSERT INTO day .. ON CONFLICT (date) DO UPDATE SET date, task_count, day_text RETURNING id
UpsertDay(dayT, d, task_count, text) ==
    IF DayByDate(dayT, d) = {}
    THEN insert_day(dayT, d, task_count, text)
    ELSE [ok |-> TRUE,
          day |-> {IF r.date = d
                   THEN [r EXCEPT !.task_count = task_count, !.day_text = text]
                   ELSE r : r \in dayT},
          id |-> (CHOOSE r \in dayT : r.date = d).id]

\* The loop of persist_parsed_day_note over note.notes: every statement runs on
\* the pool, so it changes the note table at once; an update_note error leaves
\* the loop with the statements before it applied.
RECURSIVE ApplyIntents(_, _, _, _)
ApplyIntents(noteT, intents, day_key, out) ==
    IF intents = <<>>
    THEN [ok |-> TRUE, note |-> noteT, notes |-> out]
    ELSE LET n == Head(intents) IN
         IF n.kind = "NewNote"
         THEN LET ins == InsertNoteRow(noteT, n.body, n.created_at, n.completed, day_key) IN
              ApplyIntents(ins.note, Tail(intents), day_key,
                           Append(out, to_note(n, ins.id)))
         ELSE LET upd == update_note(noteT, n) IN
              IF upd.ok
              THEN ApplyIntents(upd.note, Tail(intents), day_key,
                                Append(out, [id |-> n.id, body |-> n.body,
                                             completed |-> n.completed]))
              ELSE [ok |-> FALSE, note |-> upd.note, notes |-> out]

NoResult == [notes |-> <<>>, date |-> 0, day_text |-> <<>>, note_count |-> 0]

\* NoteStore::persist_parsed_day_note: the upsert runs on the transaction, the
\* note statements on the pool; the transaction commits after the loop and is
\* rolled back when the loop returns early.
persist_parsed_day_note(dayT, noteT, doc) ==
    LET up == UpsertDay(dayT, doc.date, doc.note_count, doc.day_text)
        ap == ApplyIntents(noteT, doc.notes, up.id, <<>>)
    IN  IF ap.ok
        THEN [ok |-> TRUE, day |-> up.day, note |-> ap.note,
              result |-> [notes |-> ap.notes, date |-> doc.date,
                          day_text |-> doc.day_text, note_count |-> Len(ap.notes)]]
        ELSE [ok |-> FALSE, day |-> dayT, note |-> ap.note, result |-> NoResult]

\* ------------------------------------------------------------ read model
\* mutant of RangeRows: the query does not filter on deleted_at
RangeRowsWithDeleted(dayT, noteT, start_day, end_day) ==
    {[id |-> n.id, body |-> n.body, completed |-> n.completed,
      created_at |-> n.created_at, date |-> d.date] :
        <<n, d>> \in {p \in noteT \X dayT :
                        /\ p[1].day_key = p[2].id
                        /\ p[2].date >= start_day /\ p[2].date <= end_day}}

\* Rows of the SELECT of get_day_notes_in_range: note INNER JOIN day ON
\* n.day_key = d.id WHERE d.date BETWEEN ?1 AND ?2 AND n.deleted_at IS NULL
RangeRows(dayT, noteT, start_day, end_day) ==
    {[id |-> n.id, body |-> n.body, completed |-> n.completed,
      created_at |-> n.created_at, date |-> d.date] :
        <<n, d>> \in {p \in noteT \X dayT :
                        /\ p[1].day_key = p[2].id
                        /\ p[2].date >= start_day /\ p[2].date <= end_day
                        /\ p[1].deleted_at = NULL}}

\* ORDER BY n.created_at: every arrangement of the rows with created_at
\* ascending (SQL leaves the order of rows with equal keys open)
OrderByCreatedAt(rows) ==
    {q \in [1..Cardinality(rows) -> rows] :
        /\ \A i, j \in DOMAIN q : i # j => q[i] # q[j]
        /\ \A i, j \in DOMAIN q : i < j => q[i].created_at <= q[j].created_at}

\* SELECT day_text FROM day WHERE date = ?  (fetch_optional, unwrap_or(String::new()))
DayTextOrEmpty(dayT, d) ==
    IF DayByDate(dayT, d) = {} THEN <<>>
    ELSE (CHOOSE r \in dayT : r.date = d).day_text

IsOnDay(row, d) == row.date = d

\* notes.remove(&day).unwrap_or(vec![]).into_iter().map(Note::from)
NotesOfDay(jobbies, d) ==
    LET picked == SelectSeq(jobbies, LAMBDA row : IsOnDay(row, d)) IN
    [i \in 1..Len(picked) |-> NoteFromRow(picked[i])]

\* mutant of day_delta: the end day is left out
day_delta_exclusive(start_day, end_day) == end_day - start_day

\* (end_day - start_day).num_days() + 1
day_delta(start_day, end_day) == (end_day - start_day) + 1

\* mutant of get_day_notes_in_range: note_count is read from the Day row
get_day_notes_in_range_stored_count(dayT, jobbies, start_day, end_day) ==
    LET n == day_delta(start_day, end_day) IN
    IF n < 0
    THEN [status |-> "panic", out |-> <<>>]
    ELSE [status |-> "ok",
          out |-> [i \in 1..n |->
                     LET d == start_day + (i - 1)
                         day_notes == NotesOfDay(jobbies, d)
                     IN [notes |-> day_notes, date |-> d,
                         note_count |-> IF DayByDate(dayT, d) = {} THEN 0
                                        ELSE (CHOOSE r \in dayT : r.date = d).task_count,
                         day_text |-> DayTextOrEmpty(dayT, d)]]]

\* NoteStore::get_day_notes_in_range, given the fetched rows `jobbies`.
\* HashMap::with_capacity(day_delta as usize) aborts on a negative day_delta.
get_day_notes_in_range(dayT, jobbies, start_day, end_day) ==
    LET n == day_delta(start_day, end_day) IN
    IF n < 0
    THEN [status |-> "panic", out |-> <<>>]
    ELSE [status |-> "ok",
          out |-> [i \in 1..n |->
                     LET d == start_day + (i - 1)
                         day_notes == NotesOfDay(jobbies, d)
                     IN [notes |-> day_notes, date |-> d,
                         note_count |-> Len(day_notes),
                         day_text |-> DayTextOrEmpty(dayT, d)]]]

\* NoteStore::get_days_notes (store.rs)
get_days_notes(dayT, jobbies, d) ==
    LET r == get_day_notes_in_range(dayT, jobbies, d, d) IN
    IF r.status # "ok" THEN r
    ELSE IF r.out = <<>> THEN [status |-> "err", out |-> <<>>]
    ELSE [status |-> "ok", out |-> <<r.out[1]>>]

\* NoteStore::insert_note
insert_note(dayT, noteT, n) ==
    LET utc_naive == date_naive(n.created_at)
        found == DayByDate(dayT, utc_naive)
        dayIns == insert_day(dayT, utc_naive, 0, <<>>)
        dayT2 == IF found = {} THEN dayIns.day ELSE dayT
        day_key == IF found = {} THEN dayIns.id
                   ELSE (CHOOSE r \in found : TRUE).id
        ins == InsertNoteRow(noteT, n.body, n.created_at, n.completed, day_key)
    IN [day |-> dayT2, note |-> ins.note, result |-> to_note(n, ins.id)]

\* ------------------------------------------------- the edit path of main.rs
MainHeader == <<"T", "o", "d", "a", "y", ":", " ">>

RECURSIVE MainFindHeader(_, _)
\* the loop `while date.is_none()` of parse_notes_string
MainFindHeader(b, i) ==
    IF i > Len(b) THEN [found |-> FALSE, date |-> <<>>, next |-> i]
    ELSE IF Trim(b[i]) = <<>> THEN MainFindHeader(b, i + 1)
    ELSE IF HasPrefix(b[i], MainHeader)
    THEN [found |-> TRUE, date |-> SubSeq(b[i], Len(MainHeader) + 1, Len(b[i])),
          next |-> i + 1]
    ELSE MainFindHeader(b, i + 1)

\* impl From<NoteRow> for Note (main.rs)
MainNoteFromRow(r) ==
    [id |-> r.id, body |-> r.body, completed |-> r.completed, created_at |-> r.created_at]

\* NoteStore::get_days_notes (main.rs), given the fetched rows `jobbies`;
\* the day_text query is a fetch_one: an error when the date has no Day row
main_get_days_notes(dayT, jobbies, d) ==
    IF DayByDate(dayT, d) = {}
    THEN [status |-> "err", out |-> <<>>]
    ELSE [status |-> "ok",
          out |-> <<[notes |-> [i \in 1..Len(jobbies) |-> MainNoteFromRow(jobbies[i])],
                     note_count |-> Len(jobbies),
                     date |-> d,
                     day_text |-> (CHOOSE r \in dayT : r.date = d).day_text]>>]

MainLineResult(res, dayT, noteT, id) == [res |-> res, day |-> dayT, note |-> noteT, id |-> id]

\* Note::from_pretty (main.rs), the arm Some((id_string, text)): parse the id,
\* then _update_note, a fetch_one that fails when no row has the id
MainUpdateLine(dayT, noteT, id_string, body, completed) ==
    LET id == ParseU32(id_string) IN
    IF ~id.ok THEN MainLineResult("Err", dayT, noteT, 0)
    ELSE LET upd == update_note(noteT, [id |-> id.val, body |-> body,
                                        completed |-> completed])
         IN IF ~upd.ok THEN MainLineResult("Err", dayT, noteT, 0)
            ELSE MainLineResult("Some", dayT, upd.note, id.val)

\* Note::from_pretty (main.rs), the arm None: a blank text is a no-op, any other
\* text is inserted as a new note
MainInsertLine(dayT, noteT, new_note_text, completed, now) ==
    IF new_note_text = <<>> THEN MainLineResult("None", dayT, noteT, 0)
    ELSE LET ins == insert_note(dayT, noteT, [body |-> new_note_text,
                                              completed |-> completed,
                                              created_at |-> now])
         IN MainLineResult("Some", ins.day, ins.note, ins.result.id)

\* Note::from_pretty (main.rs), the match on s[idx + 1..].split_once(':')
MainFields(dayT, noteT, rest, completed, now) ==
    LET p == FindChar(rest, ":") IN
    IF p # 0
    THEN MainUpdateLine(dayT, noteT, SubSeq(rest, 1, p - 1),
                        Trim(SubSeq(rest, p + 1, Len(rest))), completed)
    ELSE MainInsertLine(dayT, noteT, Trim(rest), completed, now)

\* the start &s[..7] of a text whose byte 7 is a character boundary
MainStart(s) == SubSeq(s, 1, CHOOSE k \in CharsAtByte(s, PrefixLen) : TRUE)

\* Note::from_pretty (main.rs): the slice &s[..7] panics on a text of fewer than
\* seven bytes or when byte 7 is inside a character; the start is rejected when
\* it differs from '- [ ] :' or differs from '- [x] :'; the tick is chars().nth(4)
main_from_pretty(dayT, noteT, l, now) ==
    LET s == Trim(l) IN
    IF CharsAtByte(s, PrefixLen) = {} THEN MainLineResult("Panic", dayT, noteT, 0)
    ELSE IF MainStart(s) # OpenPrefix \/ MainStart(s) # DonePrefix
    THEN MainLineResult("Err", dayT, noteT, 0)
    ELSE MainFields(dayT, noteT, SubSeq(s, FindChar(s, ":") + 1, Len(s)), s[5] = "x", now)

\* Note::from_pretty (notes.rs): the slice &s[..7] panics as above; the start
\* must be one of the two prefixes; the tick is chars().nth(3); the match on
\* split_once(':') is the one of main.rs (an id-bearing line is updated through
\* _update_note whatever its body, any other non-blank text is inserted)
Note_from_pretty(dayT, noteT, l, now) ==
    LET s == Trim(l) IN
    IF CharsAtByte(s, PrefixLen) = {} THEN MainLineResult("Panic", dayT, noteT, 0)
    ELSE IF ~(MainStart(s) = OpenPrefix \/ MainStart(s) = DonePrefix)
    THEN MainLineResult("Err", dayT, noteT, 0)
    ELSE MainFields(dayT, noteT, SubSeq(s, FindChar(s, ":") + 1, Len(s)), s[4] = "x", now)

\* the existing-note update Note::from_pretty (notes.rs) reads from a line that
\* has a legal prefix and a second ':' : (id_string, text.trim(), tick)
FromPrettyUpdate(l) ==
    LET s == Trim(l)
        rest == SubSeq(s, PrefixLen + 1, Len(s))
        p == FindChar(rest, ":")
    IN [kind |-> "Note", id |-> ParseU32(SubSeq(rest, 1, p - 1)).val,
        body |-> Trim(SubSeq(rest, p + 1, Len(rest))), completed |-> s[4] = "x"]

\* TRUE when Note::from_pretty (notes.rs) takes the line for an existing-note update
IsUpdateLine(l) ==
    /\ CharsAtByte(Trim(l), PrefixLen) # {}
    /\ MainStart(Trim(l)) \in {OpenPrefix, DonePrefix}
    /\ FindChar(SubSeq(Trim(l), PrefixLen + 1, Len(Trim(l))), ":") # 0

RECURSIVE MainApplyLines(_, _, _, _, _, _)
\* one turn of the loop `for line in line_iter`, given what Note::from_pretty
\* returned for line i: `?` returns its error, None is skipped, Some is seen
MainAfterLine(r, b, i, seen_notes, now) ==
    IF r.res \in {"Panic", "Err"}
    THEN [res |-> r.res, day |-> r.day, note |-> r.note, seen_notes |-> seen_notes]
    ELSE MainApplyLines(r.day, r.note, b, i + 1,
                        IF r.res = "Some" THEN seen_notes \cup {r.id} ELSE seen_notes,
                        now)

\* the loop `for line in line_iter` of parse_notes_string
MainApplyLines(dayT, noteT, b, i, seen_notes, now) ==
    IF i > Len(b)
    THEN [res |-> "Ok", day |-> dayT, note |-> noteT, seen_notes |-> seen_notes]
    ELSE MainAfterLine(main_from_pretty(dayT, noteT, Trim(b[i]), now), b, i, seen_notes, now)

\* the loop `for note_id in day_note_ids`: soft_delte_note_by_id on each id
SoftDeleteAll(noteT, ids) ==
    {IF r.id \in ids THEN [r EXCEPT !.deleted_at = STAMP] ELSE r : r \in noteT}

\* parse_notes_string after the line loop: an error or a panic of the loop ends
\* the call, otherwise the notes of the day that no line named are soft-deleted
MainDeleteUnseen(ap, day_note_ids, d) ==
    IF ap.res # "Ok"
    THEN [status |-> IF ap.res = "Panic" THEN "panic" ELSE "err",
          day |-> ap.day, note |-> ap.note, date |-> d, seen_notes |-> ap.seen_notes]
    ELSE [status |-> "ok", day |-> ap.day,
          note |-> SoftDeleteAll(ap.note, day_note_ids \ ap.seen_notes),
          date |-> d, seen_notes |-> ap.seen_notes]

\* parse_notes_string after the header: get_days_notes fails on a date without
\* a Day row; then the line loop and the deletion loop
MainReconcile(dayT, noteT, b, next, d, now) ==
    IF DayByDate(dayT, d) = {}
    THEN [status |-> "err", day |-> dayT, note |-> noteT, date |-> d, seen_notes |-> {}]
    ELSE MainDeleteUnseen(MainApplyLines(dayT, noteT, b, next, {}, now),
                          IdsOf(RangeRows(dayT, noteT, d, d)), d)

\* parse_notes_string after the header loop: the date is parsed
MainAfterHeader(dayT, noteT, b, h, now) ==
    IF ~h.found \/ ~ParseDate(h.date).ok
    THEN [status |-> "err", day |-> dayT, note |-> noteT, date |-> 0, seen_notes |-> {}]
    ELSE MainReconcile(dayT, noteT, b, h.next, ParseDate(h.date).date, now)

\* parse_notes_string (main.rs), up to the closing read of the day
parse_notes_string(dayT, noteT, b, now) ==
    MainAfterHeader(dayT, noteT, b, MainFindHeader(b, 1), now)

\* ------------------------------------------------------------------ actions
\* `last` is the call the store has just served: its input, its outcome, what
\* it returned and the tables as they were before it.  The caller drops it
\* (Return) before the next call; the one call that may follow at once is a
\* second persist of the same document.
NoDoc == [notes |-> <<>>, note_count |-> 0, date |-> 0, day_text |-> <<>>]

Idle == [op |-> "idle", status |-> "ok", doc |-> NoDoc, arg |-> <<>>, out |-> <<>>,
         named |-> {}, preDay |-> {}, preNote |-> {}, repeat |-> FALSE, prevOut |-> <<>>]

Call(op, status, doc, arg, out, named) ==
    [op |-> op, status |-> status, doc |-> doc, arg |-> arg, out |-> out,
     named |-> named, preDay |-> day, preNote |-> note,
     repeat |-> last # Idle, prevOut |-> last.out]

\* ids named by the ExistingNoteUpdate intents of a document
UpdateIds(doc) == {doc.notes[i].id : i \in {j \in DOMAIN doc.notes : doc.notes[j].kind = "Note"}}

NewNoteCount(doc) ==
    Cardinality({i \in DOMAIN doc.notes : doc.notes[i].kind = "NewNote"})

\* the note table stays within MaxNotes rows
CanPersist(noteT, doc) == Cardinality(noteT) + NewNoteCount(doc) <= MaxNotes

NoSrc == [id |-> 0, body |-> <<>>, completed |-> FALSE]

LineCodecOff ==
    src = NoSrc /\ line = <<>> /\ parsed = ParsedOther("Unparsed") /\ cpc = "off"

DayCodecOff == buf = <<>> /\ cursor = 1 /\ dayOut = <<>> /\ docs = <<>>

StoreEmpty == day = {} /\ note = {} /\ last = Idle

Init == StoreEmpty /\ LineCodecOff /\ DayCodecOff

InsertNote ==
    \E n \in NewNotes :
        /\ last = Idle
        /\ Cardinality(note) < MaxNotes
        /\ LET r == insert_note(day, note, n) IN
            /\ day' = r.day
            /\ note' = r.note
            /\ last' = Call("insert_note", "ok", NoDoc, <<n.created_at>>, <<>>, {})
        /\ UNCHANGED codecVars

SoftDelete ==
    \E id \in NoteIds :
        /\ last = Idle
        /\ note' = soft_delte_note_by_id(note, id)
        /\ last' = Call("soft_delete", "ok", NoDoc, <<id>>, <<>>, {})
        /\ UNCHANGED <<day, codecVars>>

Persist ==
    \E doc \in ParsedDayDocs :
        /\ \/ last = Idle
           \/ last.op = "persist" /\ last.status = "ok" /\ ~last.repeat /\ last.doc = doc
        /\ CanPersist(note, doc)
        /\ LET r == persist_parsed_day_note(day, note, doc) IN
            /\ day' = r.day
            /\ note' = r.note
            /\ last' = Call("persist", IF r.ok THEN "ok" ELSE "err", doc,
                            <<doc.date>>, IF r.ok THEN <<r.result>> ELSE <<>>,
                            UpdateIds(doc))
        /\ UNCHANGED codecVars

Range ==
    \E start_day \in QueryDates, end_day \in QueryDates :
        \E jobbies \in OrderByCreatedAt(RangeRows(day, note, start_day, end_day)) :
            LET r == get_day_notes_in_range(day, jobbies, start_day, end_day) IN
            /\ last = Idle
            /\ last' = Call("range", r.status, NoDoc, <<start_day, end_day>>, r.out, {})
            /\ UNCHANGED <<storeVars, codecVars>>

GetDaysNotes ==
    \E d \in QueryDates :
        \E jobbies \in OrderByCreatedAt(RangeRows(day, note, d, d)) :
            LET r == get_days_notes(day, jobbies, d) IN
            /\ last = Idle
            /\ last' = Call("get_days_notes", r.status, NoDoc, <<d>>, r.out, {})
            /\ UNCHANGED <<storeVars, codecVars>>

\* the edit path of main.rs: parse_notes_string on the text the editor left
MaxMainLines == 2   \* lines of a buffer handed to parse_notes_string

MainLines ==
    {MainHeader \o FormatDate(1),
     MainHeader \o FormatDate(2),
     <<>>,
     Note_pretty([id |-> 1, body |-> <<"a">>, completed |-> FALSE]),
     <<"-", " ", "[", "x", "]", " ", ":", "b">>}

\* the store after parse_notes_string and the call's record; a successful call
\* returns the closing get_days_notes(day)
ParseNotesReturn(r) ==
    /\ Cardinality(r.note) <= MaxNotes
    /\ day' = r.day
    /\ note' = r.note
    /\ \E jobbies \in OrderByCreatedAt(RangeRows(r.day, r.note, r.date, r.date)) :
          last' = Call("parse_notes_string", r.status, NoDoc, <<r.date>>,
                       IF r.status = "ok"
                       THEN main_get_days_notes(r.day, jobbies, r.date).out
                       ELSE <<>>,
                       r.seen_notes)

ParseNotesString ==
    \E b \in SeqsUpTo(MainLines, MaxMainLines), now \in Times :
        /\ last = Idle
        /\ ParseNotesReturn(parse_notes_string(day, note, b, now))
        /\ UNCHANGED codecVars

\* lines handed to Note::from_pretty (notes.rs), after its tests
FromPrettyLines ==
    {<<"-", " ", "[", " ", "]", " ", ":", "1", ":", " ", "a">>,
     <<" ", "-", " ", "[", "x", "]", " ", ":", "1", ":", " ", "b">>,
     <<"-", " ", "[", "x", "]", " ", ":", "2", ":", " ", "b">>,
     <<"-", " ", "[", " ", "]", " ", ":", "3", ":", " ", "a">>,
     <<"-", " ", "[", "x", "]", " ", ":", "b">>,
     <<"-", " ", "[", " ", "]", " ", ":", " ", " ">>,
     <<"-", " ", "[", " ", "]", ";", "1", ":", " ", "a">>,
     <<"t", "e", "x", "t">>}

\* the store after Note::from_pretty and the call's record
FromPrettyReturn(r, l) ==
    /\ Cardinality(r.note) <= MaxNotes
    /\ day' = r.day
    /\ note' = r.note
    /\ last' = Call("from_pretty",
                    CASE r.res = "Panic" -> "panic" [] r.res = "Err" -> "err" [] OTHER -> "ok",
                    IF r.res = "Some" /\ IsUpdateLine(l)
                    THEN [NoDoc EXCEPT !.notes = <<FromPrettyUpdate(l)>>, !.note_count = 1]
                    ELSE NoDoc,
                    <<>>,
                    IF r.res = "Some"
                    THEN <<NoteFromRow(CHOOSE n \in r.note : n.id = r.id)>>
                    ELSE <<>>,
                    IF r.res = "Some" /\ IsUpdateLine(l) THEN {r.id} ELSE {})

\* Note::from_pretty (notes.rs); Utc::now() is an instant of Times
FromPretty ==
    \E l \in FromPrettyLines, now \in Times :
        /\ last = Idle
        /\ FromPrettyReturn(Note_from_pretty(day, note, l, now), l)
        /\ UNCHANGED codecVars

\* NoteStore::get_days_notes of main.rs (Mode::Show, Mode::Edit)
MainGetDaysNotes ==
    \E d \in QueryDates :
        \E jobbies \in OrderByCreatedAt(RangeRows(day, note, d, d)) :
            LET r == main_get_days_notes(day, jobbies, d) IN
            /\ last = Idle
            /\ last' = Call("main_get_days_notes", r.status, NoDoc, <<d>>, r.out, {})
            /\ UNCHANGED <<storeVars, codecVars>>

\* buffers an editor may leave: a day with an update, a new note and free text;
\* an unedited empty day; free text without a header; nothing
EditedBuffers ==
    {<<DayHeader \o FormatDate(1),
       Note_pretty([id |-> 1, body |-> <<"b">>, completed |-> TRUE]),
       <<"-", " ", "[", " ", "]", " ", ":", "a">>,
       <<"t">>,
       Terminator>>,
     <<TodayHeader \o FormatDate(2), <<>>, pretty_empty>>,
     <<<<"t">>>>,
     <<>>}

\* ParsedDayNotes::parse_pretty_md on the lines of an edited buffer; Utc::now()
\* is an instant of Times
ParsePrettyMd ==
    \E b \in EditedBuffers, now \in Times :
        LET r == ParsedDayNotes_parse_pretty_md(b, 1, now) IN
        /\ last = Idle
        /\ last' = Call("parse_pretty_md",
                        CASE r.res = "Ok" -> "ok" [] r.res = "Panic" -> "panic" [] OTHER -> "err",
                        NoDoc, <<>>, IF r.res = "Ok" THEN <<r>> ELSE <<>>, {})
        /\ UNCHANGED <<storeVars, codecVars>>

Return ==
    /\ last # Idle
    /\ last' = Idle
    /\ UNCHANGED <<storeVars, codecVars>>

vars == <<day, note, last, src, line, parsed, cpc, buf, cursor, dayOut, docs>>

Next ==
    \/ InsertNote
    \/ SoftDelete
    \/ Persist
    \/ Range
    \/ GetDaysNotes
    \/ ParseNotesString
    \/ FromPretty
    \/ MainGetDaysNotes
    \/ ParsePrettyMd
    \/ Return

Spec == Init /\ [][Next]_vars

\* ------------------------------------------- note line codec: specification
MaxBody == 3        \* characters in the body of a serialized Note
MaxTail == 4        \* characters after the start of an edited line

BodyChars == {"a", ":", " "}
TailChars == {" ", ":", "1", "a", "-", "+"}

SrcNotes ==
    [id : {0, 7, 42, 123456908}, body : SeqsUpTo(BodyChars, MaxBody) \ {<<>>},
     completed : BOOLEAN]

\* how an edited line may start: the two legal prefixes and near misses
Heads ==
    {OpenPrefix, DonePrefix,
     <<>>,
     <<"[", "]">>,
     <<"-", "[", "]", " ", ":">>,
     <<"-", " ", "[", " ", "]", ";">>,
     <<"-", " ", "[", " ", "]", ":">>,
     <<"-", " ", "[", "X", "]", " ", ":">>,
     <<"-", " ", "[", "x", "]">>,
     <<"-", " ", "[", " ", "]", " ", "é">>}

RawLines ==
    {lead \o head \o tail :
        lead \in {<<>>, <<" ">>}, head \in Heads, tail \in SeqsUpTo(TailChars, MaxTail)}

LineInit ==
    /\ StoreEmpty /\ DayCodecOff
    /\ parsed = ParsedOther("Unparsed")
    /\ \/ cpc = "note" /\ src \in SrcNotes /\ line = <<>>
       \/ cpc = "line" /\ src = NoSrc /\ line \in RawLines

\* Note::pretty
LinePretty ==
    /\ cpc = "note"
    /\ line' = Note_pretty(src)
    /\ cpc' = "line"
    /\ UNCHANGED <<src, parsed, storeAll, dayVars>>

\* ParsedNote::parse_pretty_md; Utc::now() is an instant of Times
LineParse ==
    \E now \in Times :
        /\ cpc = "line"
        /\ parsed' = ParsedNote_parse_pretty_md(line, now)
        /\ cpc' = "done"
        /\ UNCHANGED <<src, line, storeAll, dayVars>>

LineNext ==
    \/ LinePretty
    \/ LineParse

LineSpec == LineInit /\ [][LineNext]_vars

\* -------------------------------------------- day document codec: specification
MaxLines == 4       \* lines of an edited buffer
MaxCalls == 2       \* calls of the day parser on one cursor

BufferLines ==
    {DayHeader \o FormatDate(1),
     TodayHeader \o FormatDate(2),
     <<>>,
     Terminator,
     <<" ", "-", " ", "[", "x", "]", " ", ":", "1", ":", " ", "a">>,
     <<" ", "-", " ", "[", " ", "]", " ", ":", "b">>,
     pretty_empty,
     <<"-", "[", "]", " ", ":", "1", ":", " ", "a">>,
     <<" ", "t", " ">>}

DayInit ==
    /\ StoreEmpty /\ LineCodecOff
    /\ buf \in SeqsUpTo(BufferLines, MaxLines)
    /\ cursor = 1
    /\ dayOut = <<>>
    /\ docs = <<>>

\* one call of ParsedDayNotes::parse_pretty_md(&mut lines)
ParseDay ==
    \E now \in Times :
        /\ Len(dayOut) < MaxCalls
        /\ LET r == ParsedDayNotes_parse_pretty_md(buf, cursor, now) IN
            /\ dayOut' = Append(dayOut, r)
            /\ cursor' = r.next
        /\ UNCHANGED <<buf, docs, storeAll, lineVars>>

DayNext ==
    \/ ParseDay

DaySpec == DayInit /\ [][DayNext]_vars

\* ------------------------------------- day document serializer: specification
MaxBlocks == 2      \* day blocks in one buffer

DocDates == 1..(MaxDate + 1)

\* day_text as the parser builds it (empty, or lines that end with a line break)
\* and as update_day_text may store it (any text)
DocTexts == {<<>>, <<"t", "\n">>, <<"t">>}

\* struct Note; a Note row may have an empty body
DocNotes ==
    {[id |-> 1, body |-> <<"a">>, completed |-> FALSE],
     [id |-> 2, body |-> <<"b">>, completed |-> TRUE],
     [id |-> 2, body |-> <<>>, completed |-> FALSE]}

\* struct DayNotes, as the store builds it (note_count is the length of notes)
DocDayNotes ==
    {[notes |-> ns, note_count |-> Len(ns), date |-> d, day_text |-> t] :
        ns \in SeqsUpTo(DocNotes, MaxNotes), d \in DocDates, t \in DocTexts}

DocInit ==
    /\ StoreEmpty
    /\ src = NoSrc /\ line = <<>> /\ parsed = ParsedOther("Unparsed")
    /\ cpc = "docs"
    /\ docs \in SeqsUpTo(DocDayNotes, MaxBlocks) \ {<<>>}
    /\ buf = <<>> /\ cursor = 1 /\ dayOut = <<>>

\* DayNotes::pretty_md of every day, the outputs joined by line breaks and read
\* through str::lines
PrettyMd ==
    \E today \in QueryDates :
        /\ cpc = "docs"
        /\ buf' = Lines(JoinBlocks(docs, today))
        /\ cpc' = "md"
        /\ UNCHANGED <<cursor, dayOut, docs, src, line, parsed, storeAll>>

\* DayNotes::pretty of one day
Pretty ==
    \E today \in QueryDates :
        /\ cpc = "docs" /\ Len(docs) = 1
        /\ buf' = Lines(DayNotes_pretty(docs[1], today))
        /\ cpc' = "display"
        /\ UNCHANGED <<cursor, dayOut, docs, src, line, parsed, storeAll>>

\* one call of ParsedDayNotes::parse_pretty_md on the lines of the editable form
DocParse ==
    \E now \in Times :
        /\ cpc = "md"
        /\ Len(dayOut) < Len(docs)
        /\ LET r == ParsedDayNotes_parse_pretty_md(buf, cursor, now) IN
            /\ dayOut' = Append(dayOut, r)
            /\ cursor' = r.next
        /\ UNCHANGED <<buf, docs, storeAll, lineVars>>

DocNext ==
    \/ PrettyMd
    \/ Pretty
    \/ DocParse

DocSpec == DocInit /\ [][DocNext]_vars

\* ------------------------------------------------------ store: properties
DayIdOf(dayT, d) == {r.id : r \in DayByDate(dayT, d)}

\* the note rows that are alive and owned by the Day row of date d
AliveOfDay(dayT, noteT, d) ==
    {n \in noteT : n.deleted_at = NULL /\ n.day_key \in DayIdOf(dayT, d)}

SeqIds(notes) == {notes[i].id : i \in DOMAIN notes}

OnlyUpdates(doc) == \A i \in DOMAIN doc.notes : doc.notes[i].kind = "Note"

RowById(noteT, id) == CHOOSE r \in noteT : r.id = id

PersistDone == last.op = "persist"

PersistOk == last.op = "persist" /\ last.status = "ok"

\* C1: a persist of a document holding an update of an id that has no note row
\* (none before the call, and none made by the call) returns an error and leaves
\* every Note row and every Day row as it was.
C1_FailedPersistAtomic ==
    (PersistDone /\ UpdateIds(last.doc) \ IdsOf(note) # {})
        => /\ last.status = "err"
           /\ note = last.preNote
           /\ day = last.preDay

ReconcileOk == last.status = "ok" /\ last.op \in {"persist", "parse_notes_string"}

\* C2: after a successful reconciliation of a document for date d, every note that
\* was alive and owned by Day d before the call and is not named by the document
\* has its delete marker set, is absent from the returned DayNotes and is not
\* alive in Day d any more.
C2_DeletionByOmission ==
    ReconcileOk =>
        \A n \in AliveOfDay(last.preDay, last.preNote, last.arg[1]) :
            n.id \notin last.named =>
                /\ RowById(note, n.id).deleted_at # NULL
                /\ n.id \notin SeqIds(last.out[1].notes)
                /\ n.id \notin IdsOf(AliveOfDay(day, note, last.arg[1]))

\* what C3 asks of a second persist of the same document
SecondPersistSame ==
    /\ last.status = "ok"
    /\ last.out = last.prevOut
    /\ IdsOf(AliveOfDay(day, note, last.doc.date))
         = IdsOf(AliveOfDay(last.preDay, last.preNote, last.doc.date))
    /\ \A r \in last.preNote : RowById(note, r.id).created_at = r.created_at

\* C3 (as stated): persisting any document a second time right after a successful
\* persist succeeds, returns an equal DayNotes, leaves the alive notes of the day
\* the same and changes no created_at.
C3_PersistIdempotent ==
    (PersistDone /\ last.repeat) => SecondPersistSame

\* C3 (amended): the same, for a document that holds no NewNoteRequest.
C3_PersistIdempotentUpdatesOnly ==
    (PersistDone /\ last.repeat /\ OnlyUpdates(last.doc)) => SecondPersistSame

C3_Witness ==
    /\ PersistOk /\ last.repeat /\ OnlyUpdates(last.doc)
    /\ Len(last.doc.notes) = 2
    /\ last.doc.notes[1].id # last.doc.notes[2].id

RangeDone == last.op = "range"

\* C4: for start <= end a range query returns (end - start) + 1 entries, the i-th
\* dated start + i days: ascending, no gap, no duplicate.
C4_RangeGapFilling ==
    (RangeDone /\ last.arg[1] <= last.arg[2]) =>
        /\ last.status = "ok"
        /\ Len(last.out) = (last.arg[2] - last.arg[1]) + 1
        /\ \A i \in DOMAIN last.out : last.out[i].date = last.arg[1] + (i - 1)

C4_Witness ==
    /\ RangeDone /\ last.status = "ok"
    /\ last.arg[2] - last.arg[1] = 2
    /\ \E i \in DOMAIN last.out : DayByDate(day, last.out[i].date) = {}
    /\ \E i \in DOMAIN last.out : last.out[i].notes # <<>>

\* C5: each entry of a range result holds exactly the alive notes owned by the Day
\* row of its date, created_at ascending, with the Day row's day_text, or the
\* empty text when the date has no Day row; no alive notes gives an empty list
\* and note_count 0.
C5_RangeContent ==
    (RangeDone /\ last.status = "ok") =>
        \A i \in DOMAIN last.out :
            LET e == last.out[i]
                alive == AliveOfDay(day, note, e.date)
            IN  /\ {e.notes[j] : j \in DOMAIN e.notes} = {NoteFromRow(n) : n \in alive}
                /\ Len(e.notes) = Cardinality(alive)
                /\ \A j, k \in DOMAIN e.notes :
                       j < k => RowById(note, e.notes[j].id).created_at
                                  <= RowById(note, e.notes[k].id).created_at
                /\ e.day_text = (IF DayByDate(day, e.date) = {} THEN <<>>
                                 ELSE (CHOOSE r \in day : r.date = e.date).day_text)
                /\ (alive = {} => e.notes = <<>> /\ e.note_count = 0)

C5_Witness ==
    /\ RangeDone /\ last.status = "ok"
    /\ \E i \in DOMAIN last.out :
          /\ Len(last.out[i].notes) = 2
          /\ last.out[i].notes[1].id > last.out[i].notes[2].id
          /\ last.out[i].day_text # <<>>
    /\ \E i \in DOMAIN last.out : DayByDate(day, last.out[i].date) = {}

\* ---------------------------------------------- note line codec: properties
LineDone == cpc = "done"

LegalPrefix(s) == HasPrefix(s, OpenPrefix) \/ HasPrefix(s, DonePrefix)

\* the text after the checkbox prefix of a line that has a legal prefix
AfterPrefix(l) == SubSeq(Trim(l), PrefixLen + 1, Len(Trim(l)))

IdCandidate(l) == SubSeq(AfterPrefix(l), 1, FindChar(AfterPrefix(l), ":") - 1)

AfterId(l) ==
    SubSeq(AfterPrefix(l), FindChar(AfterPrefix(l), ":") + 1, Len(AfterPrefix(l)))

HasIdField(l) == FindChar(AfterPrefix(l), ":") # 0

AllWhitespace(s) == \A i \in DOMAIN s : IsWhitespace(s[i])

AllDigits(s) == s # <<>> /\ \A i \in DOMAIN s : IsDigit(s[i])

IsErr(p) == p.res \in {"ErrShort", "ErrStart", "ErrTick", "ErrColon", "ErrId"}

RoundTripExact == parsed = ParsedExisting(src.id, src.body, src.completed)

\* C6 (as stated): parsing the serialized line of a Note with any non-empty body
\* gives an existing-note intent with the same id, body and completed flag.
C6_NoteLineRoundTrip ==
    (LineDone /\ src # NoSrc) => RoundTripExact

\* C6 (amended): the same, for a body that neither starts nor ends with whitespace.
C6_NoteLineRoundTripTrimmed ==
    (LineDone /\ src # NoSrc
        /\ ~IsWhitespace(src.body[1]) /\ ~IsWhitespace(src.body[Len(src.body)]))
        => RoundTripExact

C6_Witness ==
    /\ LineDone /\ parsed.res = "Note"
    /\ src.id = 123456908 /\ src.completed
    /\ src.body = <<"a", ":", "a">>

\* C7: a line with a legal checkbox prefix and either a numeric id and an empty
\* trimmed body, or no id field and an empty trimmed remainder, parses to Ok(None).
C7_NoOpDetection ==
    (LineDone /\ LegalPrefix(Trim(line))
        /\ \/ HasIdField(line) /\ AllDigits(IdCandidate(line)) /\ AllWhitespace(AfterId(line))
           \/ ~HasIdField(line) /\ AllWhitespace(AfterPrefix(line)))
        => parsed.res = "None"

C7_Witness ==
    /\ LineDone /\ parsed.res = "None"
    /\ HasPrefix(Trim(line), DonePrefix)
    /\ AfterPrefix(line) = <<"1", "1", ":">>
    /\ Len(line) > Len(Trim(line))

\* C9: a line whose trimmed text does not begin with '- [ ] :' or '- [x] :'
\* makes ParsedNote::parse_pretty_md return an error.
C9_CheckboxRejection ==
    (LineDone /\ ~LegalPrefix(Trim(line))) => IsErr(parsed)

\* C10: a line with a legal checkbox prefix and an id candidate that does not
\* parse as a non-negative integer makes ParsedNote::parse_pretty_md return an
\* error, whatever follows the id.
C10_MalformedId ==
    (LineDone /\ LegalPrefix(Trim(line)) /\ HasIdField(line)
        /\ ~ParseU32(IdCandidate(line)).ok)
        => IsErr(parsed)

\* C16: a line with a legal checkbox prefix whose remainder has no ':' and is
\* not empty after trimming parses to a new-note intent (no id) whose body is the
\* trimmed remainder, also when the remainder starts with digits, and whose
\* completed flag is true exactly when the checkbox is '[x]'; it is stamped with
\* an instant of the parse.
C16_NewNoteClassification ==
    (LineDone /\ LegalPrefix(Trim(line)) /\ ~HasIdField(line)
        /\ ~AllWhitespace(AfterPrefix(line)))
        => /\ parsed.res = "NewNote"
           /\ parsed.id = 0
           /\ parsed.body = Trim(AfterPrefix(line))
           /\ parsed.completed = HasPrefix(Trim(line), DonePrefix)
           /\ parsed.created_at \in Times

C16_Witness ==
    /\ LineDone /\ parsed.res = "NewNote" /\ parsed.completed
    /\ HasPrefix(Trim(line), DonePrefix)
    /\ AfterPrefix(line) = <<" ", "1", " ", "a">>
    /\ parsed.body = <<"1", " ", "a">>

\* --------------------------------------------- day document codec: properties
\* line i of the buffer is a note line the Note Format Codec returns an error for
BadNoteLine(i) ==
    /\ buf[i] # Terminator
    /\ Trim(buf[i]) # <<>>
    /\ Head(Trim(buf[i])) = "-"
    /\ IsErr(ParsedNote_parse_pretty_md(buf[i], 0))

\* C8: a day block with a note line that the Note Format Codec rejects makes
\* ParsedDayNotes::parse_pretty_md return an error, and no document.
C8_MalformedLineAbortsDay ==
    \A k \in DOMAIN dayOut :
        (\E i \in dayOut[k].body..(dayOut[k].next - 1) : i <= Len(buf) /\ BadNoteLine(i))
            => dayOut[k].res # "Ok"

\* ------------------------------------------------- store: further properties
\* a call that returned DayNotes: persist, a range query or a single-day read
ReadModelReturned ==
    last.status = "ok" /\ last.op \in {"persist", "range", "get_days_notes"}

\* C13: no DayNotes returned by persist_parsed_day_note, get_day_notes_in_range
\* or get_days_notes holds a note whose delete marker is set, and no operation
\* removes a Note row from storage.
C13_SoftDeletedNeverRead ==
    /\ ReadModelReturned =>
          \A i \in DOMAIN last.out : \A j \in DOMAIN last.out[i].notes :
              RowById(note, last.out[i].notes[j].id).deleted_at = NULL
    /\ last # Idle => IdsOf(last.preNote) \subseteq IdsOf(note)

\* what a single-day read of date d can return in the current store
SingleDayReads(d) ==
    {get_days_notes(day, jobbies, d).out : jobbies \in OrderByCreatedAt(RangeRows(day, note, d, d))}

\* C14: the DayNotes a successful persist returns is equal (note ids, order,
\* bodies, flags, note_count, day_text) to what a single-day read of the
\* document's date returns right after the call: the surviving notes of the day,
\* created_at ascending.  Stated for the documents that name every note that
\* was alive in the day, so that no note is to be deleted by omission.
C14_PersistReturnsReadModel ==
    (PersistOk /\ IdsOf(AliveOfDay(last.preDay, last.preNote, last.doc.date)) \subseteq last.named)
        => last.out \in SingleDayReads(last.doc.date)

\* the entries get_day_notes_in_range(d, d) can return in the current store
SingleDayRanges(d) ==
    {get_day_notes_in_range(day, jobbies, d, d).out :
        jobbies \in OrderByCreatedAt(RangeRows(day, note, d, d))}

\* get_days_notes of store.rs returns the entry of the range query (d, d)
StoreLookupTotal ==
    last.op = "get_days_notes" =>
        last.status = "ok" /\ last.out \in SingleDayRanges(last.arg[1])

\* get_days_notes of main.rs returns a DayNotes for the date
MainLookupTotal ==
    last.op = "main_get_days_notes" =>
        last.status = "ok" /\ Len(last.out) = 1 /\ last.out[1].date = last.arg[1]

\* C15: for every store state and every date, with or without a Day row and
\* with or without alive notes, the single-day lookup get_days_notes(day)
\* returns the one entry of the range query (day, day) and never an error.
C15_SingleDayLookup == StoreLookupTotal /\ MainLookupTotal

\* a call that applied at least one existing-note update and returned Ok
UpdateApplied ==
    /\ last.status = "ok"
    /\ last.op \in {"persist", "from_pretty"}
    /\ last.named # {}

\* the intents of a document that name note id i
IntentsFor(doc, i) ==
    {k \in DOMAIN doc.notes : doc.notes[k].kind = "Note" /\ doc.notes[k].id = i}

\* the last of them: its UPDATE is the one whose values stay
LastIntentFor(doc, i) == doc.notes[SetMax(IntentsFor(doc, i))]

\* row r with the body and the completed flag of intent n, all else the same
Updated(r, n) == [r EXCEPT !.body = n.body, !.completed = n.completed]

\* C17: after an existing-note update for id i was applied, through persist or
\* through Note::from_pretty, the note that had id i has the body and completed
\* flag of the intent and the same id, created_at, owning Day and delete marker;
\* every Note row that no update names is as before; and the call adds no rows
\* but those of its new-note requests. A persist that fails leaves every row
\* either as before or updated to an intent that names it.
C17_UpdateInPlace ==
    /\ UpdateApplied =>
          /\ \A r \in last.preNote :
                \E a \in note :
                    /\ a.id = r.id
                    /\ a = IF r.id \in last.named
                           THEN Updated(r, LastIntentFor(last.doc, r.id))
                           ELSE r
          /\ Cardinality(note) = Cardinality(last.preNote) + NewNoteCount(last.doc)
    /\ (last.op = "persist" /\ last.status = "err") =>
          \A r \in last.preNote :
              \E a \in note :
                  /\ a.id = r.id
                  /\ \/ a = r
                     \/ \E k \in IntentsFor(last.doc, r.id) : a = Updated(r, last.doc.notes[k])

C17_Witness ==
    /\ PersistOk
    /\ last.named = {1}
    /\ Cardinality(last.preNote) = 2
    /\ RowById(note, 1).body # RowById(last.preNote, 1).body
    /\ RowById(note, 1).completed # RowById(last.preNote, 1).completed
    /\ RowById(note, 1).created_at = 1
    /\ RowById(note, 2) = RowById(last.preNote, 2)

\* the same through Note::from_pretty of notes.rs
FromPrettyUpdated ==
    /\ last.op = "from_pretty" /\ last.status = "ok" /\ last.named = {1}
    /\ Cardinality(last.preNote) = 2
    /\ RowById(note, 1).body # RowById(last.preNote, 1).body

\* C18: after a successful persist of document D there is exactly one Day row
\* for D.date, whether or not one existed before; its day_text is D.day_text and
\* its task_count is D.note_count whatever they were, its id is the one it had
\* when the row existed, and the Day rows of the other dates are unchanged.
C18_DayUpsertLastEditWins ==
    PersistOk =>
        /\ Cardinality(DayByDate(day, last.doc.date)) = 1
        /\ \A r \in DayByDate(day, last.doc.date) :
              /\ r.day_text = last.doc.day_text
              /\ r.task_count = last.doc.note_count
              /\ DayIdOf(last.preDay, last.doc.date) \subseteq {r.id}
        /\ {r \in day : r.date # last.doc.date} = {r \in last.preDay : r.date # last.doc.date}

C18_Witness ==
    /\ PersistOk
    /\ DayIdOf(last.preDay, last.doc.date) = {2}
    /\ \E r \in DayByDate(last.preDay, last.doc.date) :
          /\ r.day_text # <<>> /\ r.task_count = 2
    /\ last.doc.day_text = <<>> /\ last.doc.note_count = 0
    /\ Cardinality(day) = 2

\* the soft-deleted notes that the existing-note updates of the last call name
NamedSoftDeleted ==
    {r \in last.preNote : r.deleted_at # NULL /\ r.id \in last.named}

\* C19: a persist of a document with an existing-note update whose id belongs
\* to a soft-deleted note returns an error, leaves that note's body and completed
\* flag as they were, and returns no DayNotes holding that note.
C19_UpdateOfDeletedIsNotFound ==
    (PersistDone /\ NamedSoftDeleted # {}) =>
        /\ last.status = "err"
        /\ \A r \in NamedSoftDeleted :
              /\ RowById(note, r.id).body = r.body
              /\ RowById(note, r.id).completed = r.completed
              /\ \A i \in DOMAIN last.out : r.id \notin SeqIds(last.out[i].notes)

\* ------------------------------------ day document serializer: properties
NonEmptyBody(n) == n.body # <<>>

\* the intents an unedited block of DayNotes d stands for: one existing-note
\* update per note with a non-empty body, in order
ExpectedIntents(d) ==
    LET kept == SelectSeq(d.notes, NonEmptyBody) IN
    [i \in DOMAIN kept |-> ParsedExisting(kept[i].id, kept[i].body, kept[i].completed)]

\* the line of the buffer that ends block k
BlockEnd(k) == Len(Lines(JoinBlocks(SubSeq(docs, 1, k), 0)))

HasChar(s, c) == \E i \in DOMAIN s : s[i] = c

\* C11: for a buffer of k >= 1 blocks written by DayNotes::pretty_md and joined
\* by line breaks, the i-th call of ParsedDayNotes::parse_pretty_md on the one
\* cursor returns a document with the date and the note intents of block i only,
\* stops right after the '---' line of block i, and takes no header, note line
\* or free text of another block.
C11_MultiDayBuffers ==
    cpc = "md" =>
        \A k \in DOMAIN dayOut :
            /\ dayOut[k].res = "Ok"
            /\ dayOut[k].date = docs[k].date
            /\ dayOut[k].notes = ExpectedIntents(docs[k])
            /\ dayOut[k].next = BlockEnd(k) + 1
            /\ buf[BlockEnd(k)] = Terminator
            /\ ~HasChar(dayOut[k].day_text, "#")

\* the same, for blocks whose day_text is empty or ends with a line break
MultiDayBuffersClosedText ==
    (cpc = "md" /\ \A i \in DOMAIN docs : docs[i].day_text # <<"t">>) =>
        \A k \in DOMAIN dayOut :
            /\ dayOut[k].res = "Ok"
            /\ dayOut[k].date = docs[k].date
            /\ dayOut[k].notes = ExpectedIntents(docs[k])
            /\ dayOut[k].next = BlockEnd(k) + 1
            /\ buf[BlockEnd(k)] = Terminator
            /\ ~HasChar(dayOut[k].day_text, "#")

\* the lines of the buffer that are the empty placeholder ' - [ ] :'
PlaceholderLines == {i \in DOMAIN buf : buf[i] = pretty_empty}

\* line i of the buffer is the line of a note
IsNoteLine(i) ==
    /\ buf[i] # pretty_empty
    /\ HasPrefix(buf[i], <<" ", "-", " ", "[">>)

\* C12: the editable form and the display form of a DayNotes with any number
\* of notes, zero included, hold exactly one placeholder line ' - [ ] :', after
\* the note lines; the placeholder parses to a no-op; and the document parsed
\* from the unedited editable form holds no new-note request, so that persisting
\* it inserts no Note row.
C12_NewNotePlaceholder ==
    /\ ParsedNote_parse_pretty_md(pretty_empty, 0).res = "None"
    /\ (cpc \in {"md", "display"} /\ Len(docs) = 1) =>
          /\ Cardinality(PlaceholderLines) = 1
          /\ \A p \in PlaceholderLines : \A i \in DOMAIN buf : IsNoteLine(i) => i < p
    /\ cpc = "md" =>
          \A k \in DOMAIN dayOut : \A j \in DOMAIN dayOut[k].notes :
              dayOut[k].notes[j].res # "NewNote"

\* the same for the editable form alone
PlaceholderInEditableForm ==
    /\ ParsedNote_parse_pretty_md(pretty_empty, 0).res = "None"
    /\ (cpc = "md" /\ Len(docs) = 1) =>
          /\ Cardinality(PlaceholderLines) = 1
          /\ \A p \in PlaceholderLines : \A i \in DOMAIN buf : IsNoteLine(i) => i < p
    /\ cpc = "md" =>
          /\ Cardinality(PlaceholderLines) = Len(docs)
          /\ \A k \in DOMAIN dayOut : \A j \in DOMAIN dayOut[k].notes :
                dayOut[k].notes[j].res # "NewNote"

\* the parse of the editable form of the one DayNotes of the buffer has returned
RoundTripDone == cpc = "md" /\ Len(docs) = 1 /\ Len(dayOut) = 1

\* the document read back is the DayNotes that was written
SameDocument ==
    /\ dayOut[1].res = "Ok"
    /\ dayOut[1].date = docs[1].date
    /\ dayOut[1].notes = ExpectedIntents(docs[1])
    /\ dayOut[1].note_count = Len(ExpectedIntents(docs[1]))
    /\ dayOut[1].day_text = docs[1].day_text

\* C20: ParsedDayNotes::parse_pretty_md(DayNotes::pretty_md(d)) succeeds and
\* returns the date of d, one existing-note intent per note with a non-empty
\* body, in order, with the same id, body and completed flag, note_count equal
\* to their number, and day_text equal to d.day_text, also when d.day_text is not
\* empty and does not end with a line break.
C20_DayDocumentRoundTrip == RoundTripDone => SameDocument

\* the same, for a day_text that is empty or ends with a line break
RoundTripClosedText ==
    (RoundTripDone /\ docs[1].day_text # <<"t">>) => SameDocument

\* ------------------------------------------------- store: identity and counts
\* the rows of the note table that the last call inserted
InsertedRows == {r \in note : r.id \notin IdsOf(last.preNote)}

\* the created_at instants of the new-note requests of a document
NewNoteInstants(doc) ==
    {doc.notes[i].created_at : i \in {j \in DOMAIN doc.notes : doc.notes[j].kind = "NewNote"}}

\* C21: after a successful persist of a document for date d every new-note
\* request has made exactly one Note row; the ids of all Note rows, alive or
\* soft-deleted, differ; every new row is alive, owned by the Day row of d and
\* listed in the range entry of d, whatever the calendar date of its created_at.
C21_NewNotesFreshIdentity ==
    PersistOk =>
        /\ Cardinality(InsertedRows) = NewNoteCount(last.doc)
        /\ Cardinality(IdsOf(note)) = Cardinality(note)
        /\ \A r \in InsertedRows :
              /\ r.day_key \in DayIdOf(day, last.doc.date)
              /\ r.deleted_at = NULL
              /\ r.created_at \in NewNoteInstants(last.doc)
              /\ \A out \in SingleDayRanges(last.doc.date) : r.id \in SeqIds(out[1].notes)

C21_Witness ==
    /\ PersistOk
    /\ Cardinality(InsertedRows) = 1
    /\ \E r \in InsertedRows : date_naive(r.created_at) # last.doc.date
    /\ \E r \in last.preNote : r.deleted_at # NULL

\* the alive Note rows owned by Day row r
AliveOwned(r) == {n \in note : n.day_key = r.id /\ n.deleted_at = NULL}

\* C22: in every state of the store every Day row's task_count (the persisted
\* note_count) is the number of Note rows it owns whose delete marker is null.
C22_TaskCountIsAliveCount ==
    \A r \in day : r.task_count = Cardinality(AliveOwned(r))

\* a call of ParsedDayNotes::parse_pretty_md that returned a document
ParsedReturned == last.op = "parse_pretty_md" /\ last.status = "ok"

\* C23: every DayNotes returned by persist_parsed_day_note, by
\* get_day_notes_in_range or by get_days_notes has note_count equal to the length
\* of its notes list, and every ParsedDayNotes returned by parse_pretty_md has
\* note_count equal to the number of its intents.
C23_CountFieldsMatchLists ==
    /\ (ReadModelReturned \/ ParsedReturned) =>
          \A i \in DOMAIN last.out : last.out[i].note_count = Len(last.out[i].notes)
    /\ \A k \in DOMAIN dayOut : dayOut[k].res = "Ok" => dayOut[k].note_count = Len(dayOut[k].notes)

C23_Witness ==
    /\ RangeDone /\ last.status = "ok"
    /\ \E i \in DOMAIN last.out :
          /\ last.out[i].note_count = 1
          /\ \E r \in DayByDate(day, last.out[i].date) : r.task_count # 1
    /\ \E i \in DOMAIN last.out : last.out[i].note_count = 0

\* the dates that have a Day row
DatesOf(dayT) == {r.date : r \in dayT}

\* a read of the store
ReadDone == last.op \in {"range", "get_days_notes", "main_get_days_notes"}

\* a persist of a document with no intents and an empty day_text
EmptyPersist == PersistDone /\ last.doc.notes = <<>> /\ last.doc.day_text = <<>>

\* C24: there is never more than one Day row for a date; a read makes no Day
\* row; a call makes a Day row only for a date that a note insertion or a
\* write of non-empty day_text targets, so that a persist of a document with no
\* intents and an empty day_text makes none.
C24_DayRowExistence ==
    /\ \A r1, r2 \in day : r1.date = r2.date => r1 = r2
    /\ ReadDone => day = last.preDay
    /\ EmptyPersist => DatesOf(day) = DatesOf(last.preDay)

\* the parts of C24 about reads and about one Day row per date
DayRowsUniqueAndReadOnly ==
    /\ \A r1, r2 \in day : r1.date = r2.date => r1 = r2
    /\ ReadDone => day = last.preDay

\* ------------------------------------- day document codec: further properties
\* a non-blank line whose first non-whitespace character is not '-'
IsFreeText(l) == Trim(l) # <<>> /\ Head(Trim(l)) # "-"

RECURSIVE VerbatimText(_, _, _)
\* the free-text lines i..j of buffer b, each unchanged and followed by a line break
VerbatimText(b, i, j) ==
    IF i > j \/ i > Len(b) THEN <<>>
    ELSE (IF IsFreeText(b[i]) THEN b[i] \o <<"\n">> ELSE <<>>) \o VerbatimText(b, i + 1, j)

\* C25: the day_text of a parsed day is the concatenation, in source order, of
\* the non-blank lines of the block that do not start with '-', each copied
\* unchanged, leading and trailing whitespace included, and followed by one
\* line break; blank lines and note lines add nothing.
C25_FreeTextVerbatim ==
    \A k \in DOMAIN dayOut :
        dayOut[k].res = "Ok" =>
            dayOut[k].day_text = VerbatimText(buf, dayOut[k].body, dayOut[k].next - 1)

RECURSIVE TrimmedText(_, _, _)
\* the same lines, each trimmed
TrimmedText(b, i, j) ==
    IF i > j \/ i > Len(b) THEN <<>>
    ELSE (IF IsFreeText(b[i]) THEN Trim(b[i]) \o <<"\n">> ELSE <<>>) \o TrimmedText(b, i + 1, j)

\* what the parser does keep: the free-text lines, trimmed
FreeTextTrimmed ==
    \A k \in DOMAIN dayOut :
        dayOut[k].res = "Ok" =>
            dayOut[k].day_text = TrimmedText(buf, dayOut[k].body, dayOut[k].next - 1)

\* the line the cursor stands at when call k of the parser begins
StartOfCall(k) == IF k = 1 THEN 1 ELSE dayOut[k - 1].next

RECURSIVE FirstNonBlank(_, _)
\* the first non-blank line of b from line i on, or 0
FirstNonBlank(b, i) ==
    IF i > Len(b) THEN 0
    ELSE IF Trim(b[i]) # <<>> THEN i
    ELSE FirstNonBlank(b, i + 1)

\* the line with the other header spelling, any other line unchanged
OtherSpelling(l) ==
    IF HasPrefix(l, TodayHeader) THEN DayHeader \o SubSeq(l, Len(TodayHeader) + 1, Len(l))
    ELSE IF HasPrefix(l, DayHeader) THEN TodayHeader \o SubSeq(l, Len(DayHeader) + 1, Len(l))
    ELSE l

\* buffer b with the other spelling on line h
OtherSpellings(b, h) == [i \in DOMAIN b |-> IF i = h THEN OtherSpelling(b[i]) ELSE b[i]]

\* call k returns what it returns for the buffer whose header line, the line
\* before the body of the block, has the other spelling
SpellingsParseAlike(k) ==
    \E now \in Times :
        ParsedDayNotes_parse_pretty_md(OtherSpellings(buf, dayOut[k].body - 1),
                                       StartOfCall(k), now) = dayOut[k]

\* call k found no header line as the first non-blank line
NoHeaderFirst(k) ==
    \/ FirstNonBlank(buf, StartOfCall(k)) = 0
    \/ ~StripHeader(buf[FirstNonBlank(buf, StartOfCall(k))]).found

\* C26: a block parses to the same document under '# Today: <date>' and under
\* '# Day: <date>'; only blank lines are skipped before the header, so that a
\* stream that ends before a header, or whose first non-blank line is not a
\* header, gives an error and never a document dated by a later line.
C26_HeaderHandling ==
    \A k \in DOMAIN dayOut :
        /\ SpellingsParseAlike(k)
        /\ NoHeaderFirst(k) => dayOut[k].res \in {"ErrNoHeader", "ErrDate"}

\* the parts of C26 that hold: both spellings parse alike, and a stream with no
\* header line gives an error
HeaderSpellingsAndEndOfStream ==
    \A k \in DOMAIN dayOut :
        /\ SpellingsParseAlike(k)
        /\ (\A i \in StartOfCall(k)..Len(buf) : ~StripHeader(buf[i]).found)
              => dayOut[k].res = "ErrNoHeader"

\* ---------------------------------------------------------------- totality
\* ParsedNote::parse_pretty_md finished with an intent, a no-op or an error value
ParseLineTotal == LineDone => parsed.res # "Panic"

\* Note::from_pretty and the edit flow parse_notes_string finished with a value
FromPrettyTotal ==
    last.op \in {"from_pretty", "parse_notes_string"} => last.status # "panic"

\* C27: for every input text, the empty text, texts shorter than the 7-byte
\* checkbox prefix and texts whose 7th byte lies inside a multi-byte character
\* included, ParsedNote::parse_pretty_md and Note::from_pretty finish with an
\* intent, a no-op or an error value and never abort the program, and so does
\* the edit flow parse_notes_string.
C27_NoteLineParsingTotal == ParseLineTotal /\ FromPrettyTotal

\* the Note rows that, before the last call, were owned by a Day row of a date
\* other than d
OwnedByOtherDay(d) ==
    {r \in last.preNote : \E dr \in last.preDay : dr.id = r.day_key /\ dr.date # d}

\* C28: a persist of document D, successful or not, changes no Note row owned
\* by a Day of another date than D.date: an existing-note update that names
\* such a note leaves its body and completed flag alone, and the note is not in
\* the DayNotes returned for D.date.
C28_PersistConfinedToDay ==
    PersistDone =>
        \A r \in OwnedByOtherDay(last.doc.date) :
            /\ r \in note
            /\ \A i \in DOMAIN last.out : r.id \notin SeqIds(last.out[i].notes)

====
